---- MODULE Spec2Model ----
(***************************************************************************)
(* Differential backup subsystem of day-tracker: BackupService             *)
(* (backupService.ts), the file hasher (fileHash.ts) and the parts of      *)
(* StorageService (storage.ts) that record and delete tracked files.       *)
(***************************************************************************)
EXTENDS Integers, Sequences, FiniteSets, TLC

\* ---------------------------------------------------------------- bounds
\* seconds the wall clock can advance
MaxClock == 2
\* number of tracked files / backups created (ids handed out)
MaxTracked == 3
\* number of times the user changes the tracked folder
MaxEdits == 1
\* longest file list handed to detectChanges in SpecDetect
MaxFiles == 2

\* relative paths of the tracked folder, in localeCompare order
PathSeq == <<"a", "b">>
Paths == {PathSeq[i] : i \in 1..Len(PathSeq)}
\* possible byte contents of a file
Contents == {1, 2}
Sessions == {"s1"}
\* base name of the tracked folder (filePath.split('/').pop())
ProjectName == "proj"

NullId == 0
NullName == [project |-> "", stamp |-> 0 - 1]
EmptyFn == [x \in {} |-> 0]

VARIABLES
  clock,          \* wall clock in whole seconds (new Date())
  tree,           \* the user's folder: relative path -> content
  edits,          \* how many times the user changed the folder
  backups,        \* {storagePath}/backups/: backup name -> directory
  file_metadata,  \* rows of table file_metadata
  file_contents,  \* rows of table file_contents
  nextId,         \* next crypto.randomUUID() value
  del,            \* the deleteFileMetadata / deleteSessionFiles call in flight
  captured,       \* history: backup name -> what was captured into it
  stripped,       \* history: metadata ids whose file_contents a deletion removed
  dcCurrent, dcParent, dcChanges, dcDone, \* a detectChanges call (SpecDetect)
  lastTrack,      \* history: the last trackFile call, its copy and its result
  recon,          \* history: the last two reconstructBackup calls
  cpStore, cpLog, \* one backup's files/ under copyFileToBackup calls, and the calls
  hdFiles, hdFaults, hdOrderA, hdOrderB, hdResultA, hdResultB, hdDone, \* two hashDirectory runs
  simLog,         \* history: the calculateFolderSimilarity calls and their results
  svcDb,          \* StorageService.db: "null" or "open"
  svcInitialized, \* StorageService.initialized
  svcInitializing, \* StorageService.initializing: 0 (null) or the run it is the promise of
  svcRuns,        \* the doInitialize runs: where each one is
  svcCalls,       \* history: the initialize() calls, what each saw and did
  svcClosing,     \* close() calls waiting for db.close()
  svcRestarts,    \* application restarts so far
  storage_config, \* ids of the rows of table storage_config
  mfLog,          \* history: createManifest / readManifest calls on one backup
  groqResponses,  \* how the API answers a request for each model
  groqTried,      \* the models callGroqWithFallback has sent a request for
  groqLastError,  \* lastError
  groqResult      \* how the call ended

vars == <<clock, tree, edits, backups, file_metadata, file_contents, nextId, del,
          captured, stripped, dcCurrent, dcParent, dcChanges, dcDone,
          lastTrack, recon, cpStore, cpLog,
          hdFiles, hdFaults, hdOrderA, hdOrderB, hdResultA, hdResultB, hdDone,
          simLog, svcDb, svcInitialized, svcInitializing, svcRuns, svcCalls,
          svcClosing, svcRestarts, storage_config, mfLog,
          groqResponses, groqTried, groqLastError, groqResult>>
mainVars == <<clock, tree, edits, backups, file_metadata, file_contents, nextId, del,
              captured, stripped>>
dcVars == <<dcCurrent, dcParent, dcChanges, dcDone>>
copyVars == <<cpStore, cpLog>>
hashVars == <<hdFiles, hdFaults, hdOrderA, hdOrderB, hdResultA, hdResultB, hdDone>>
svcVars == <<svcDb, svcInitialized, svcInitializing, svcRuns, svcCalls, svcClosing,
             svcRestarts, storage_config>>
groqVars == <<groqResponses, groqTried, groqLastError, groqResult>>
auxVars == <<simLog, svcVars, mfLog, groqVars>>
obsVars == <<lastTrack, recon, copyVars, hashVars, auxVars>>

\* ------------------------------------------------------------ file hasher
\* SHA-256 of a file's bytes: an injective digest of the content
sha256(content) == 100 + content
\* content.length of the bytes read
sizeOf(content) == content

\* hashDirectory(dir).files: one record per file, sorted by relative path
hashDirectory(t) ==
  LET present == SelectSeq(PathSeq, LAMBDA p : p \in DOMAIN t)
  IN [i \in 1..Len(present) |->
        [relative_path |-> present[i],
         file_hash     |-> sha256(t[present[i]]),
         file_size     |-> sizeOf(t[present[i]])]]

\* ---------------------------------------------------------- BackupService
generateBackupName(projectName) == [project |-> projectName, stamp |-> clock]

\* parsable: the text of manifest.json is what JSON.parse accepts
NoManifest ==
  [exists |-> FALSE, parsable |-> FALSE, backup_name |-> NullName,
   parent_backup |-> NullName, is_full_backup |-> FALSE, file_count |-> 0,
   files |-> <<>>]
NoReconstructed == [exists |-> FALSE, tree |-> EmptyFn]
\* a backup directory right after mkdir(backupPath), mkdir(filesPath)
EmptyDir ==
  [files |-> EmptyFn, copied |-> EmptyFn, manifest |-> NoManifest,
   reconstructed |-> NoReconstructed]

DirOf(name) == IF name \in DOMAIN backups THEN backups[name] ELSE EmptyDir

\* what readFile/writeFile do in one copy: the write takes effect ("ok"),
\* one of them throws ("throws"), or writeFile returns and the object is not
\* there afterwards ("lost")
IoResults == {"ok", "throws", "lost"}

\* files/ with the object of fileHash written from the source
WriteObject(store, src, sourcePath, fileHash) ==
  [h \in DOMAIN store \cup {fileHash} |->
     IF h = fileHash THEN src[sourcePath] ELSE store[h]]

\* copyFileToBackup without its exists(destPath) test: every call writes
copyRunNoDedup(store, src, sourcePath, fileHash, io) ==
  IF sourcePath \notin DOMAIN src
  THEN [store |-> store, outcome |-> "returns", wrote |-> FALSE]
  ELSE IF io = "throws"
  THEN [store |-> store, outcome |-> "throws", wrote |-> FALSE]
  ELSE IF io = "lost"
  THEN [store |-> store, outcome |-> "returns", wrote |-> FALSE]
  ELSE [store |-> WriteObject(store, src, sourcePath, fileHash),
        outcome |-> "returns", wrote |-> TRUE]

\* one run of copyFileToBackup(sourcePath, fileHash, backupPath): files/
\* afterwards, whether it returned destPath or threw, whether it wrote
copyRun(store, src, sourcePath, fileHash, io) ==
  IF sourcePath \notin DOMAIN src
  THEN [store |-> store, outcome |-> "returns", wrote |-> FALSE]
  ELSE IF fileHash \in DOMAIN store
  THEN [store |-> store, outcome |-> "returns", wrote |-> FALSE]
  ELSE IF io = "throws"
  THEN [store |-> store, outcome |-> "throws", wrote |-> FALSE]
  ELSE IF io = "lost"
  THEN [store |-> store, outcome |-> "returns", wrote |-> FALSE]
  ELSE [store |-> WriteObject(store, src, sourcePath, fileHash),
        outcome |-> "returns", wrote |-> TRUE]

\* the content store files/ after copyFileToBackup(sourcePath, fileHash, ..)
\* when reading and writing work
copyFileToBackup(store, src, sourcePath, fileHash) ==
  copyRun(store, src, sourcePath, fileHash, "ok").store

\* new Map(files.map(f => [f.relative_path, f])): a later entry wins
MapHas(files, p) == \E i \in 1..Len(files) : files[i].relative_path = p
MapGet(files, p) ==
  files[CHOOSE i \in 1..Len(files) :
          /\ files[i].relative_path = p
          /\ \A j \in (i+1)..Len(files) : files[j].relative_path # p]

Change(f, type) ==
  [relative_path |-> f.relative_path, file_hash |-> f.file_hash,
   file_size |-> f.file_size, change_type |-> type]

\* detectChanges whose second loop forgets !currentMap.has(..)
detectChangesAllDeleted(currentFiles, parentFiles) ==
  LET classify(cur) ==
        IF ~MapHas(parentFiles, cur.relative_path) THEN Change(cur, "added")
        ELSE IF MapGet(parentFiles, cur.relative_path).file_hash # cur.file_hash
             THEN Change(cur, "modified")
             ELSE Change(cur, "unchanged")
      first == [i \in 1..Len(currentFiles) |-> classify(currentFiles[i])]
      second == [i \in 1..Len(parentFiles) |-> Change(parentFiles[i], "deleted")]
  IN first \o second

\* detectChanges whose hash test is === instead of !==
detectChangesHashSwapped(currentFiles, parentFiles) ==
  LET classify(cur) ==
        IF ~MapHas(parentFiles, cur.relative_path) THEN Change(cur, "added")
        ELSE IF MapGet(parentFiles, cur.relative_path).file_hash = cur.file_hash
             THEN Change(cur, "modified")
             ELSE Change(cur, "unchanged")
      first == [i \in 1..Len(currentFiles) |-> classify(currentFiles[i])]
      gone  == SelectSeq(parentFiles,
                         LAMBDA f : ~MapHas(currentFiles, f.relative_path))
      second == [i \in 1..Len(gone) |-> Change(gone[i], "deleted")]
  IN first \o second

detectChanges(currentFiles, parentFiles) ==
  LET classify(cur) ==
        IF ~MapHas(parentFiles, cur.relative_path) THEN Change(cur, "added")
        ELSE IF MapGet(parentFiles, cur.relative_path).file_hash # cur.file_hash
             THEN Change(cur, "modified")
             ELSE Change(cur, "unchanged")
      first == [i \in 1..Len(currentFiles) |-> classify(currentFiles[i])]
      gone  == SelectSeq(parentFiles,
                         LAMBDA f : ~MapHas(currentFiles, f.relative_path))
      second == [i \in 1..Len(gone) |-> Change(gone[i], "deleted")]
  IN first \o second

\* file_metadata row with this id (ids are unique)
RowById(id) == CHOOSE r \in file_metadata : r.id = id
HasRow(id) == \E r \in file_metadata : r.id = id

\* SELECT * FROM file_contents WHERE folder_metadata_id = ? ORDER BY relative_path
getFolderContents(folderMetadataId) ==
  LET rows == {fc \in file_contents : fc.folder_metadata_id = folderMetadataId}
      present == SelectSeq(PathSeq,
                           LAMBDA p : \E fc \in rows : fc.relative_path = p)
  IN [i \in 1..Len(present) |->
        LET fc == CHOOSE x \in rows : x.relative_path = present[i]
        IN [relative_path |-> fc.relative_path, file_hash |-> fc.file_hash,
            file_size |-> fc.file_size, change_type |-> fc.change_type]]

\* readManifest(backupPath): the parsed manifest, or null (NoManifest) when
\* reading or parsing manifest.json fails
readManifest(backupName) ==
  IF /\ backupName \in DOMAIN backups
     /\ backups[backupName].manifest.exists
     /\ backups[backupName].manifest.parsable
  THEN backups[backupName].manifest
  ELSE NoManifest

\* where the copy loop of reconstructBackup looks for the object of entry e
ReconstructStore(backupName, e) ==
  LET manifest == backups[backupName].manifest
  IN IF e.source = "current" THEN backups[backupName].files
     ELSE IF e.source = "parent" /\ manifest.parent_backup # NullName
          THEN DirOf(manifest.parent_backup).files
          ELSE EmptyFn

\* the manifest entries the copy loop copies: not deleted, object found
ReconstructedEntries(backupName) ==
  LET manifest == backups[backupName].manifest
  IN {i \in 1..Len(manifest.files) :
        /\ manifest.files[i].change_type # "deleted"
        /\ manifest.files[i].file_hash
             \in DOMAIN ReconstructStore(backupName, manifest.files[i])}

\* the entries with source = parent the copy loop warns about and skips
ParentSkipped(backupName) ==
  LET manifest == backups[backupName].manifest
  IN {i \in 1..Len(manifest.files) :
        /\ manifest.files[i].change_type # "deleted"
        /\ manifest.files[i].source = "parent"
        /\ manifest.files[i].file_hash
             \notin DOMAIN ReconstructStore(backupName, manifest.files[i])}

\* the RECONSTRUCTED tree built by the copy loop of reconstructBackup
ReconstructedTree(backupName) ==
  LET manifest == backups[backupName].manifest
      done == ReconstructedEntries(backupName)
      last(p) == CHOOSE i \in done :
                   /\ manifest.files[i].relative_path = p
                   /\ \A j \in done : manifest.files[j].relative_path = p => j <= i
  IN [p \in {manifest.files[i].relative_path : i \in done} |->
        ReconstructStore(backupName, manifest.files[last(p)])
          [manifest.files[last(p)].file_hash]]

\* reconstructBackup without its "already reconstructed" test
reconstructOutcomeNoCache(backupName) ==
  IF readManifest(backupName) = NoManifest THEN "throws" ELSE "built"

\* how a call of reconstructBackup ends: it throws 'Manifest not found',
\* returns the existing RECONSTRUCTED ("cached"), or builds it ("built")
reconstructOutcome(backupName) ==
  IF readManifest(backupName) = NoManifest THEN "throws"
  ELSE IF backups[backupName].reconstructed.exists THEN "cached"
  ELSE "built"

\* reconstructBackup creating RECONSTRUCTED before it reads the manifest
reconstructDirsMkdirFirst(backupName) ==
  LET outcome == reconstructOutcome(backupName)
  IN IF outcome = "built"
     THEN [backups EXCEPT ![backupName].reconstructed =
             [exists |-> TRUE, tree |-> ReconstructedTree(backupName)]]
     ELSE IF outcome = "throws"
     THEN [n \in DOMAIN backups \cup {backupName} |->
             IF n = backupName
             THEN [DirOf(n) EXCEPT !.reconstructed.exists = TRUE]
             ELSE backups[n]]
     ELSE backups

\* the backups directory after reconstructBackup(backupName)
reconstructDirs(backupName) ==
  IF reconstructOutcome(backupName) = "built"
  THEN [backups EXCEPT ![backupName].reconstructed =
          [exists |-> TRUE, tree |-> ReconstructedTree(backupName)]]
  ELSE backups

\* reconstructBackup(backupName): throws without a manifest, returns at once
\* when RECONSTRUCTED exists, otherwise materialises the tree
reconstructBackup(backupName) ==
  /\ backups' = reconstructDirs(backupName)
  /\ UNCHANGED <<clock, tree, edits, file_metadata, file_contents, nextId, del,
                 captured, stripped, dcVars, lastTrack, copyVars, hashVars, auxVars>>

\* ------------------------------------------------------- backup creation
\* history of what a creation put under a backup name
Captured(name, t, parentId, by) ==
  [n \in DOMAIN captured \cup {name} |->
     IF n = name
     THEN [tree |-> t,
           parentId |-> parentId,
           parent |-> IF parentId # NullId /\ HasRow(parentId)
                      THEN RowById(parentId).backup_name ELSE NullName,
           by |-> by,
           count |-> IF name \in DOMAIN captured
                     THEN captured[name].count + 1 ELSE 1]
     ELSE captured[n]]

PutDir(name, dir) ==
  [n \in DOMAIN backups \cup {name} |-> IF n = name THEN dir ELSE backups[n]]

\* ids a caller can pass as parentMetadataId: none, or a folder tracked before
ParentChoices == {NullId} \cup {r.id : r \in {x \in file_metadata : x.file_type = "folder"}}

MetadataRow(id, sessionId, fileName, fileType, backupName, isFullBackup, parentMetadataId) ==
  [id |-> id, session_id |-> sessionId, file_name |-> fileName,
   file_type |-> fileType, backup_name |-> backupName,
   is_full_backup |-> isFullBackup, parent_metadata_id |-> parentMetadataId]

\* rsync -a source/ backupPath/: files land under their relative paths and
\* what was already in the directory stays
rsync(copied, src) ==
  [p \in DOMAIN copied \cup DOMAIN src |->
     IF p \in DOMAIN src THEN src[p] ELSE copied[p]]

\* exit status of the copy command: null when the process gave none
NullCode == 0 - 1
ExitCodes == {NullCode, 0, 1, 8}
Platforms == {"windows", "macos"}

\* the normalisation without its null test: a missing code compares <= 7
exitCodeNoNullTest(os, code) ==
  IF os = "windows" /\ code <= 7 THEN 0 ELSE code

\* output.code after "if (output.code !== null && output.code <= 7) output.code = 0"
exitCode(os, code) ==
  IF os = "windows" /\ code # NullCode /\ code <= 7 THEN 0 ELSE code

\* backupName and isFullBackup when the copy step of trackFile is over:
\* set only when the step ran, did not throw and output.code === 0
backupOutcome(fileName, skipBackup, os, code, threw) ==
  LET backedUp == ~skipBackup /\ ~threw /\ exitCode(os, code) = 0
  IN [backedUp |-> backedUp,
      backupName |-> IF backedUp THEN generateBackupName(fileName) ELSE NullName,
      isFullBackup |-> IF backedUp THEN 1 ELSE 0]

\* StorageService.trackFile: copy the folder or the file with the platform's
\* copy command, then insert the file_metadata row.  code is the command's
\* exit status on platform os, threw says that the copy step threw;
\* fileContentsToInsert stays empty because nothing is hashed.
trackFile(sessionId, fileType, filePath, parentMetadataId, skipBackup, os, code, threw) ==
  LET fileName == IF fileType = "folder" THEN ProjectName ELSE filePath
      source == IF fileType = "folder" THEN tree
                ELSE [p \in {filePath} |-> tree[p]]
      name == generateBackupName(fileName)
      outcome == backupOutcome(fileName, skipBackup, os, code, threw)
      dir == DirOf(name)
  IN /\ nextId <= MaxTracked
     /\ fileType = "file" => filePath \in DOMAIN tree
     /\ fileType = "folder" => filePath = ProjectName
     /\ IF outcome.backedUp
        THEN /\ backups' = PutDir(name, [dir EXCEPT !.copied = rsync(dir.copied, source)])
             /\ captured' = Captured(name, source, parentMetadataId, "trackFile")
        ELSE UNCHANGED <<backups, captured>>
     /\ file_metadata' = file_metadata \cup
          {MetadataRow(nextId, sessionId, fileName, fileType, outcome.backupName,
                       outcome.isFullBackup, parentMetadataId)}
     /\ nextId' = nextId + 1
     /\ UNCHANGED <<clock, tree, edits, file_contents, del, stripped, dcVars,
                    recon, copyVars, hashVars, auxVars>>

ManifestEntry(c) ==
  [relative_path |-> c.relative_path, file_hash |-> c.file_hash,
   file_size |-> c.file_size, change_type |-> c.change_type,
   source |-> IF c.change_type \in {"added", "modified"}
              THEN "current" ELSE "parent"]

RECURSIVE CopyChanged(_, _, _)
CopyChanged(store, changes, src) ==
  IF changes = <<>> THEN store
  ELSE LET c == Head(changes)
       IN CopyChanged(IF c.change_type \in {"added", "modified"}
                      THEN copyFileToBackup(store, src, c.relative_path, c.file_hash)
                      ELSE store,
                      Tail(changes), src)

\* JSON text as its properties in order, each value tagged with its JSON type
JsonNull == [t |-> "null"]
JsonUndefined == [t |-> "undefined"]
JsonString(x) == [t |-> "string", v |-> x]
JsonNumber(x) == [t |-> "number", v |-> x]
JsonBoolean(x) == [t |-> IF x THEN "true" ELSE "false"]
JsonArray(x) == [t |-> "array", v |-> x]

\* a serialisation that leaves out the properties whose value is null
stringifyDropsNull(manifest) ==
  <<[key |-> "backup_name", value |-> JsonString(manifest.backup_name)]>> \o
  (IF manifest.parent_backup = NullName THEN <<>>
   ELSE <<[key |-> "parent_backup", value |-> JsonString(manifest.parent_backup)]>>) \o
  <<[key |-> "is_full_backup", value |-> JsonBoolean(manifest.is_full_backup)],
    [key |-> "file_count", value |-> JsonNumber(manifest.file_count)],
    [key |-> "files", value |-> JsonArray(manifest.files)]>>

\* JSON.stringify(manifest, null, 2): parent_backup null is written as null
stringify(manifest) ==
  <<[key |-> "backup_name", value |-> JsonString(manifest.backup_name)],
    [key |-> "parent_backup",
     value |-> IF manifest.parent_backup = NullName THEN JsonNull
               ELSE JsonString(manifest.parent_backup)],
    [key |-> "is_full_backup", value |-> JsonBoolean(manifest.is_full_backup)],
    [key |-> "file_count", value |-> JsonNumber(manifest.file_count)],
    [key |-> "files", value |-> JsonArray(manifest.files)]>>

\* the value of property key in a JSON object text, undefined when absent
JsonGet(text, key) ==
  IF \E i \in 1..Len(text) : text[i].key = key
  THEN text[CHOOSE i \in 1..Len(text) : text[i].key = key].value
  ELSE JsonUndefined

\* what a property that is neither a name nor null reads as
UndefinedName == [project |-> "", stamp |-> 0 - 2]

\* JSON.parse(text) of a manifest.json, as the manifest a reader gets
parseManifest(text) ==
  LET name(x) == IF x.t = "string" THEN x.v
                 ELSE IF x.t = "null" THEN NullName ELSE UndefinedName
      number(x) == IF x.t = "number" THEN x.v ELSE 0 - 1
      array(x) == IF x.t = "array" THEN x.v ELSE <<>>
  IN [exists |-> TRUE, parsable |-> TRUE,
      backup_name |-> name(JsonGet(text, "backup_name")),
      parent_backup |-> name(JsonGet(text, "parent_backup")),
      is_full_backup |-> JsonGet(text, "is_full_backup").t = "true",
      file_count |-> number(JsonGet(text, "file_count")),
      files |-> array(JsonGet(text, "files"))]

\* createManifest(backupPath, manifest): writeTextFile replaces manifest.json
\* by JSON.stringify(manifest); the directory keeps the text as a reader
\* parses it
createManifest(dir, manifest) ==
  [dir EXCEPT !.manifest = parseManifest(stringify(manifest))]

\* The backup flow of the design (full without a parent, differential with
\* one), built from the BackupService operations above.
createBackup(sessionId, parentBackupId) ==
  LET name == generateBackupName(ProjectName)
      current == hashDirectory(tree)
      parentFiles == IF parentBackupId = NullId THEN <<>>
                     ELSE getFolderContents(parentBackupId)
      changes == detectChanges(current, parentFiles)
      dir == DirOf(name)
      store == CopyChanged(dir.files, changes, tree)
      manifest ==
        [exists |-> TRUE, parsable |-> TRUE, backup_name |-> name,
         parent_backup |-> IF parentBackupId = NullId THEN NullName
                           ELSE RowById(parentBackupId).backup_name,
         is_full_backup |-> parentBackupId = NullId,
         file_count |-> Len(changes),
         files |-> [i \in 1..Len(changes) |-> ManifestEntry(changes[i])]]
  IN /\ nextId <= MaxTracked
     /\ parentBackupId \in ParentChoices
     /\ backups' = PutDir(name, createManifest([dir EXCEPT !.files = store], manifest))
     /\ captured' = Captured(name, tree, parentBackupId, "createBackup")
     /\ file_metadata' = file_metadata \cup
          {MetadataRow(nextId, sessionId, ProjectName, "folder", name,
                       IF parentBackupId = NullId THEN 1 ELSE 0, parentBackupId)}
     /\ file_contents' = file_contents \cup
          {[folder_metadata_id |-> nextId,
            relative_path |-> changes[i].relative_path,
            file_hash |-> changes[i].file_hash,
            file_size |-> changes[i].file_size,
            change_type |-> changes[i].change_type] : i \in 1..Len(changes)}
     /\ nextId' = nextId + 1
     /\ UNCHANGED <<clock, tree, edits, del, stripped, dcVars, obsVars>>

\* ------------------------------------------------------------ environment
\* a second passes
Tick ==
  /\ clock < MaxClock
  /\ clock' = clock + 1
  /\ UNCHANGED <<tree, edits, backups, file_metadata, file_contents, nextId, del,
                 captured, stripped, dcVars, obsVars>>

\* the user writes a file of the tracked folder
WriteFile(p, c) ==
  /\ edits < MaxEdits
  /\ edits' = edits + 1
  /\ IF p \in DOMAIN tree THEN tree[p] # c ELSE TRUE
  /\ tree' = [q \in DOMAIN tree \cup {p} |-> IF q = p THEN c ELSE tree[q]]
  /\ UNCHANGED <<clock, backups, file_metadata, file_contents, nextId, del,
                 captured, stripped, dcVars, obsVars>>

\* the user removes a file of the tracked folder
RemoveFile(p) ==
  /\ edits < MaxEdits
  /\ edits' = edits + 1
  /\ p \in DOMAIN tree
  /\ tree' = [q \in DOMAIN tree \ {p} |-> tree[q]]
  /\ UNCHANGED <<clock, backups, file_metadata, file_contents, nextId, del,
                 captured, stripped, dcVars, obsVars>>

\* --------------------------------------------------------------- deletion
NoDel == [kind |-> "none", id |-> NullId, sid |-> "", pending |-> <<>>]

RECURSIVE DescendingIds(_)
DescendingIds(ids) ==
  IF ids = {} THEN <<>>
  ELSE LET m == CHOOSE x \in ids : \A y \in ids : y <= x
       IN <<m>> \o DescendingIds(ids \ {m})

\* DELETE FROM file_contents WHERE folder_metadata_id = ?
DeleteContents(metadataId) ==
  /\ file_contents' = {fc \in file_contents : fc.folder_metadata_id # metadataId}
  /\ stripped' = IF \E fc \in file_contents : fc.folder_metadata_id = metadataId
                 THEN stripped \cup {metadataId} ELSE stripped

\* the foreign key of file_contents: a file_metadata row that still has
\* file_contents rows cannot be deleted, the statement fails
Referenced(rows) ==
  \E r \in rows : \E fc \in file_contents : fc.folder_metadata_id = r.id

\* deleteFileMetadata, first statement
deleteFileMetadataContents(metadataId) ==
  /\ del = NoDel
  /\ HasRow(metadataId)
  /\ DeleteContents(metadataId)
  /\ del' = [NoDel EXCEPT !.kind = "metadata", !.id = metadataId]
  /\ UNCHANGED <<clock, tree, edits, backups, file_metadata, nextId, captured, dcVars, obsVars>>

\* deleteFileMetadata, second statement
deleteFileMetadataRow ==
  /\ del.kind = "metadata"
  /\ file_metadata' =
       IF Referenced({r \in file_metadata : r.id = del.id}) THEN file_metadata
       ELSE {r \in file_metadata : r.id # del.id}
  /\ del' = NoDel
  /\ UNCHANGED <<clock, tree, edits, backups, file_contents, nextId, captured,
                 stripped, dcVars, obsVars>>

\* deleteSessionFiles: getSessionFiles(sessionId), newest first
deleteSessionFilesSelect(sessionId) ==
  /\ del = NoDel
  /\ \E r \in file_metadata : r.session_id = sessionId
  /\ del' = [NoDel EXCEPT !.kind = "session", !.sid = sessionId,
               !.pending = DescendingIds({r.id : r \in
                  {x \in file_metadata : x.session_id = sessionId
                                          /\ x.file_type = "folder"}})]
  /\ UNCHANGED <<clock, tree, edits, backups, file_metadata, file_contents, nextId,
                 captured, stripped, dcVars, obsVars>>

\* deleteSessionFiles: one turn of the loop over the folders
deleteSessionFilesContents ==
  /\ del.kind = "session"
  /\ del.pending # <<>>
  /\ DeleteContents(Head(del.pending))
  /\ del' = [del EXCEPT !.pending = Tail(del.pending)]
  /\ UNCHANGED <<clock, tree, edits, backups, file_metadata, nextId, captured, dcVars, obsVars>>

\* deleteSessionFiles: DELETE FROM file_metadata WHERE session_id = ?
deleteSessionFilesRows ==
  /\ del.kind = "session"
  /\ del.pending = <<>>
  /\ file_metadata' =
       IF Referenced({r \in file_metadata : r.session_id = del.sid})
       THEN file_metadata
       ELSE {r \in file_metadata : r.session_id # del.sid}
  /\ del' = NoDel
  /\ UNCHANGED <<clock, tree, edits, backups, file_contents, nextId, captured,
                 stripped, dcVars, obsVars>>

\* the statement a deletion is about to run fails: db.execute rejects and the
\* catch block rethrows; the statements already run stay applied
deleteThrows ==
  /\ del # NoDel
  /\ del' = NoDel
  /\ UNCHANGED <<clock, tree, edits, backups, file_metadata, file_contents, nextId,
                 captured, stripped, dcVars, obsVars>>

\* ------------------------------------------------------------ the program
InitTree == [p \in Paths |-> IF p = PathSeq[1] THEN 1 ELSE 2]

InitMain ==
  /\ clock = 0
  /\ tree = InitTree
  /\ edits = 0
  /\ backups = EmptyFn
  /\ file_metadata = {}
  /\ file_contents = {}
  /\ nextId = 1
  /\ del = NoDel
  /\ captured = EmptyFn
  /\ stripped = {}

InitDc ==
  /\ dcCurrent = <<>>
  /\ dcParent = <<>>
  /\ dcChanges = <<>>
  /\ dcDone = FALSE

\* no hashDirectory result yet
NoResult ==
  [hash |-> <<>>, size |-> 0, fileCount |-> 0, files |-> <<>>, progress |-> <<>>]
\* no entry that stat, readDir or readFile fails on
NoFaults == [walk |-> {}, hash |-> {}]

NoTrack ==
  [called |-> FALSE, id |-> NullId, skipBackup |-> FALSE, os |-> "macos",
   code |-> 0, threw |-> FALSE, backup_name |-> NullName, is_full_backup |-> 0]

\* nothing observed of the operations checked on their own
\* the service as constructed: no database, not initialised, nothing running
InitSvc ==
  /\ svcDb = "null"
  /\ svcInitialized = FALSE
  /\ svcInitializing = 0
  /\ svcRuns = <<>>
  /\ svcCalls = <<>>
  /\ svcClosing = 0
  /\ svcRestarts = 0
  /\ storage_config = {}

InitAux ==
  /\ simLog = <<>>
  /\ InitSvc
  /\ mfLog = <<>>
  /\ groqResponses = <<>>
  /\ groqTried = <<>>
  /\ groqLastError = "null"
  /\ groqResult = [state |-> "none"]

InitObs ==
  /\ lastTrack = NoTrack
  /\ recon = <<>>
  /\ cpStore = EmptyFn
  /\ cpLog = <<>>
  /\ hdFiles = EmptyFn
  /\ hdFaults = NoFaults
  /\ hdOrderA = <<>>
  /\ hdOrderB = <<>>
  /\ hdResultA = NoResult
  /\ hdResultB = NoResult
  /\ hdDone = {}
  /\ InitAux

Init == InitMain /\ InitDc /\ InitObs

\* the copy step as the catalogue sees it: one run that succeeds, one that fails
CopyRuns == {<<"macos", 0, FALSE>>, <<"windows", 8, FALSE>>}

TrackFileCall ==
  \E sessionId \in Sessions, fileType \in {"folder", "file"},
     filePath \in Paths \cup {ProjectName},
     parentMetadataId \in ParentChoices, skipBackup \in BOOLEAN,
     run \in CopyRuns :
    /\ trackFile(sessionId, fileType, filePath, parentMetadataId, skipBackup,
                 run[1], run[2], run[3])
    /\ UNCHANGED lastTrack

CreateBackupCall ==
  \E sessionId \in Sessions, parentBackupId \in ParentChoices :
    createBackup(sessionId, parentBackupId)

ReconstructCall ==
  \E backupName \in DOMAIN backups :
    reconstructBackup(backupName) /\ UNCHANGED recon

EditTree ==
  \/ \E p \in Paths, c \in Contents : WriteFile(p, c)
  \/ \E p \in Paths : RemoveFile(p)

DeleteCall ==
  \/ \E r \in file_metadata : deleteFileMetadataContents(r.id)
  \/ deleteFileMetadataRow
  \/ \E sessionId \in Sessions : deleteSessionFilesSelect(sessionId)
  \/ deleteSessionFilesContents
  \/ deleteSessionFilesRows
  \/ deleteThrows

\* the program as it is: trackFile records and copies, the deletions remove
Next == Tick \/ EditTree \/ TrackFileCall \/ DeleteCall
Spec == Init /\ [][Next]_vars

\* the backup flow of the design driving BackupService, with reconstruction
\* and the deletions of the catalog
NextDesign == Tick \/ EditTree \/ CreateBackupCall \/ ReconstructCall \/ DeleteCall
SpecDesign == Init /\ [][NextDesign]_vars

\* ------------------------------------------------- detectChanges on its own
\* relative paths of the file lists handed to detectChanges
DetectPaths == {"a", "b", "c"}
FileEntries ==
  {[relative_path |-> p, file_hash |-> sha256(c), file_size |-> sizeOf(c)] :
     p \in DetectPaths, c \in Contents}
\* file lists as the hasher and the catalog produce them: one entry per path
FileLists ==
  UNION {{l \in [1..n -> FileEntries] :
            \A i, j \in 1..n : l[i].relative_path = l[j].relative_path => i = j} :
         n \in 0..MaxFiles}

InitDetect ==
  /\ InitMain
  /\ dcCurrent \in FileLists
  /\ dcParent \in FileLists
  /\ dcChanges = <<>>
  /\ dcDone = FALSE
  /\ InitObs

DetectChangesCall ==
  /\ ~dcDone
  /\ dcChanges' = detectChanges(dcCurrent, dcParent)
  /\ dcDone' = TRUE
  /\ UNCHANGED <<mainVars, dcCurrent, dcParent, obsVars>>

NextDetect == DetectChangesCall
SpecDetect == InitDetect /\ [][NextDetect]_vars

PathsOf(files) == {files[i].relative_path : i \in 1..Len(files)}
EntryAt(files, p) == files[CHOOSE i \in 1..Len(files) : files[i].relative_path = p]

\* ----------------------------------------------------------------- claims
\* a backup name written once, whose ancestors were each written once
RECURSIVE CleanChain(_)
CleanChain(n) ==
  /\ n \in DOMAIN captured
  /\ captured[n].count = 1
  /\ captured[n].parent # NullName => CleanChain(captured[n].parent)

\* C1: reconstructBackup materialises exactly the (relative path, content)
\* pairs of the tree captured at that backup, for every backup of a chain of
\* one full backup followed by differential backups.
C1_ReconstructIsCapturedTree ==
  \A n \in DOMAIN backups :
    (CleanChain(n) /\ backups[n].reconstructed.exists)
      => backups[n].reconstructed.tree = captured[n].tree

\* C2: detectChanges returns exactly one change entry for each relative path
\* of the union of the two lists' paths, and no entry for any other path.
C2_ChangesCoverUnionOnce ==
  dcDone =>
    /\ \A p \in PathsOf(dcCurrent) \cup PathsOf(dcParent) :
         Cardinality({i \in 1..Len(dcChanges) : dcChanges[i].relative_path = p}) = 1
    /\ PathsOf(dcChanges) = PathsOf(dcCurrent) \cup PathsOf(dcParent)

\* a call whose lists share a path and each hold a path of their own
C2_Witness ==
  /\ dcDone
  /\ PathsOf(dcCurrent) \cap PathsOf(dcParent) # {}
  /\ PathsOf(dcCurrent) \ PathsOf(dcParent) # {}
  /\ PathsOf(dcParent) \ PathsOf(dcCurrent) # {}

\* C3: a current path absent from the parent is 'added', one with another hash
\* is 'modified', one with the same hash is 'unchanged', a parent path absent
\* from the current list is 'deleted'; so an empty parent list gives only
\* 'added' and an empty current list only 'deleted'.
C3_Classification ==
  dcDone =>
    /\ \A i \in 1..Len(dcChanges) :
         LET c == dcChanges[i]
             p == c.relative_path
             inCur == p \in PathsOf(dcCurrent)
             inPar == p \in PathsOf(dcParent)
         IN c.change_type =
              IF inCur /\ ~inPar THEN "added"
              ELSE IF inCur /\ EntryAt(dcParent, p).file_hash # EntryAt(dcCurrent, p).file_hash
                   THEN "modified"
              ELSE IF inCur THEN "unchanged"
              ELSE "deleted"
    /\ dcParent = <<>> =>
         \A i \in 1..Len(dcChanges) : dcChanges[i].change_type = "added"
    /\ dcCurrent = <<>> =>
         \A i \in 1..Len(dcChanges) : dcChanges[i].change_type = "deleted"

\* a call that produced a 'modified' and an 'unchanged' entry
C3_Witness ==
  /\ dcDone
  /\ \E i, j \in 1..Len(dcChanges) :
       /\ dcChanges[i].change_type = "modified"
       /\ dcChanges[j].change_type = "unchanged"

\* the tree difference between a backup and its parent backup
ChangedPaths(t2, t1) ==
  {p \in DOMAIN t2 : IF p \in DOMAIN t1 THEN t1[p] # t2[p] ELSE TRUE}
OneModified(t2, t1) ==
  /\ DOMAIN t2 = DOMAIN t1
  /\ Cardinality({p \in DOMAIN t2 : t1[p] # t2[p]}) = 1
CountType(manifest, type) ==
  Cardinality({i \in 1..Len(manifest.files) : manifest.files[i].change_type = type})

\* C4: a differential backup stores only the files added or modified since
\* its parent: nothing unchanged is copied, and with exactly one modified
\* file the manifest has one 'modified' entry, |T1|-1 'unchanged' entries and
\* the backup's own store holds exactly one object.
C4_DifferentialMinimal ==
  \A n \in DOMAIN backups :
    (/\ CleanChain(n)
     /\ captured[n].parentId # NullId
     /\ captured[n].parent # NullName)
    => LET t2 == captured[n].tree
           t1 == captured[captured[n].parent].tree
           dir == backups[n]
       IN /\ DOMAIN dir.copied \subseteq ChangedPaths(t2, t1)
          /\ DOMAIN dir.files \subseteq {sha256(t2[p]) : p \in ChangedPaths(t2, t1)}
          /\ OneModified(t2, t1) =>
               /\ dir.manifest.exists
               /\ CountType(dir.manifest, "modified") = 1
               /\ CountType(dir.manifest, "unchanged") = Cardinality(DOMAIN t1) - 1
               /\ Cardinality(DOMAIN dir.files) = 1

\* C5: a full backup of N files with pairwise distinct content has a manifest
\* of N entries, all 'added' from 'current', with is_full_backup true and no
\* parent, and N objects in its store.
C5_FullBackupBaseline ==
  \A n \in DOMAIN backups :
    (/\ CleanChain(n)
     /\ captured[n].parentId = NullId
     /\ \A p, q \in DOMAIN captured[n].tree :
          captured[n].tree[p] = captured[n].tree[q] => p = q)
    => LET m == backups[n].manifest
           N == Cardinality(DOMAIN captured[n].tree)
       IN /\ m.exists
          /\ Len(m.files) = N
          /\ \A i \in 1..Len(m.files) :
               m.files[i].change_type = "added" /\ m.files[i].source = "current"
          /\ m.is_full_backup
          /\ m.parent_backup = NullName
          /\ Cardinality(DOMAIN backups[n].files) = N

\* C6: a file_metadata row with a non-null backup_name exists only if the
\* manifest.json of that backup exists on disk.
C6_RecordedBackupHasManifest ==
  \A r \in file_metadata :
    r.backup_name # NullName => DirOf(r.backup_name).manifest.exists

\* C7: for every manifest entry, source 'current' means the object is in the
\* backup's own store and source 'parent' means it is in the store of the
\* backup the manifest names as parent_backup.
C7_SourceNamesTheStore ==
  \A n \in DOMAIN backups :
    (CleanChain(n) /\ backups[n].manifest.exists)
    => LET m == backups[n].manifest
       IN \A i \in 1..Len(m.files) :
            /\ m.files[i].source = "current" =>
                 m.files[i].file_hash \in DOMAIN backups[n].files
            /\ m.files[i].source = "parent" =>
                 m.files[i].file_hash \in DOMAIN DirOf(m.parent_backup).files

\* C8: reconstructing a backup whose tree is its parent's tree minus one file
\* gives a tree without that file and with every other file.
C8_DeletedFileExcluded ==
  \A n \in DOMAIN backups :
    (/\ CleanChain(n)
     /\ backups[n].reconstructed.exists
     /\ captured[n].parent # NullName)
    => LET t2 == captured[n].tree
           t1 == captured[captured[n].parent].tree
       IN \A gone \in DOMAIN t1 :
            t2 = [p \in DOMAIN t1 \ {gone} |-> t1[p]]
            => /\ gone \notin DOMAIN backups[n].reconstructed.tree
               /\ \A p \in DOMAIN t2 :
                    /\ p \in DOMAIN backups[n].reconstructed.tree
                    /\ backups[n].reconstructed.tree[p] = t2[p]

\* C9: no two backup creations obtain the same backup name or write into the
\* same backups/{backupName} directory.
C9_BackupNamesUnique ==
  \A n \in DOMAIN captured : captured[n].count = 1

\* C10: once a deletion has ended, normally or by a failing statement, no
\* file_contents row is left without its file_metadata row and no
\* file_metadata row is left whose file_contents rows the deletion removed.
C10_DeletionAtomic ==
  del = NoDel =>
    /\ \A fc \in file_contents : HasRow(fc.folder_metadata_id)
    /\ \A r \in file_metadata : r.id \notin stripped

\* ---------------------------------------------------------------------------
\* trackFile observed with its copy step: the call's inputs and the
\* FileMetadata it returns are kept in lastTrack

MaxObserved == 2

\* the object trackFile returns, built from the same locals as the row
TrackFileObserved ==
  \E sessionId \in Sessions, fileType \in {"folder", "file"},
     filePath \in Paths \cup {ProjectName},
     parentMetadataId \in ParentChoices, skipBackup \in BOOLEAN,
     os \in Platforms, code \in ExitCodes, threw \in BOOLEAN :
    LET fileName == IF fileType = "folder" THEN ProjectName ELSE filePath
        outcome == backupOutcome(fileName, skipBackup, os, code, threw)
    IN /\ nextId <= MaxObserved
       /\ trackFile(sessionId, fileType, filePath, parentMetadataId, skipBackup,
                    os, code, threw)
       /\ lastTrack' = [called |-> TRUE, id |-> nextId, skipBackup |-> skipBackup,
                        os |-> os, code |-> code, threw |-> threw,
                        backup_name |-> outcome.backupName,
                        is_full_backup |-> outcome.isFullBackup]

NextTrack == Tick \/ TrackFileObserved
SpecTrack == Init /\ [][NextTrack]_vars

\* the copy step did not succeed: it threw, the process gave no code, or the
\* code is a failure code of the platform's command (robocopy 8+, rsync non-zero)
CopyFailed(os, code, threw) ==
  \/ threw
  \/ code = NullCode
  \/ os = "windows" /\ code >= 8
  \/ os # "windows" /\ code # 0

\* C11: when the copy step of trackFile fails (failure code, no code, or a
\* throw), the recorded row and the returned FileMetadata have backup_name
\* null and is_full_backup 0; a backup_name is recorded only when the copy
\* step ran and reported success.
C11_FailedCopyRecordsNoBackup ==
  lastTrack.called =>
    LET r == RowById(lastTrack.id)
        failed == CopyFailed(lastTrack.os, lastTrack.code, lastTrack.threw)
    IN /\ HasRow(lastTrack.id)
       /\ failed => /\ r.backup_name = NullName
                    /\ r.is_full_backup = 0
                    /\ lastTrack.backup_name = NullName
                    /\ lastTrack.is_full_backup = 0
       /\ (r.backup_name # NullName \/ lastTrack.backup_name # NullName)
            => ~lastTrack.skipBackup /\ ~failed

C11_Witness ==
  /\ lastTrack.called
  /\ ~lastTrack.skipBackup
  /\ ~lastTrack.threw
  /\ lastTrack.os = "windows"
  /\ lastTrack.code = NullCode
  /\ RowById(lastTrack.id).backup_name = NullName

\* C12 (as stated): a row that records a backup has is_full_backup = 1
\* exactly when it has no parent.
C12_FullBackupIffNoParent ==
  \A r \in file_metadata :
    r.backup_name # NullName =>
      (r.is_full_backup = 1 <=> r.parent_metadata_id = NullId)

\* ---------------------------------------------------------------------------
\* reconstructBackup called on a backups directory in any condition: the
\* manifest missing, unparsable or readable, the parent named or not, its
\* directory and its objects present or gone

MaxCalls == 3

B1 == [project |-> ProjectName, stamp |-> 0]
B2 == [project |-> ProjectName, stamp |-> 1]
ReconNames == {B1, B2}

Hashes == {sha256(c) : c \in Contents}
\* a files/ directory: objects named by the hash of their content
Stores == {[h \in hs |-> CHOOSE c \in Contents : sha256(c) = h] : hs \in SUBSET Hashes}

\* what a manifest can say about one path: nothing, or one entry
NoEntry == <<"none", "none", 0>>
EntryChoices ==
  {NoEntry} \cup
  ({<<"added", "current">>, <<"unchanged", "parent">>, <<"deleted", "parent">>}
     \X Hashes)
EntryOf(p, ch) ==
  [relative_path |-> p, file_hash |-> ch[2], file_size |-> ch[2] - 100,
   change_type |-> ch[1][1], source |-> ch[1][2]]
ManifestFiles(choice) ==
  LET present == {i \in 1..Len(PathSeq) : choice[PathSeq[i]] # NoEntry}
      nth(k) == CHOOSE i \in present : Cardinality({j \in present : j <= i}) = k
  IN [k \in 1..Cardinality(present) |->
        EntryOf(PathSeq[nth(k)], choice[PathSeq[nth(k)]])]
Manifests ==
  {NoManifest, [NoManifest EXCEPT !.exists = TRUE]} \cup
  {[exists |-> TRUE, parsable |-> TRUE, backup_name |-> B2, parent_backup |-> parent,
    is_full_backup |-> parent = NullName, file_count |-> Len(ManifestFiles(choice)),
    files |-> ManifestFiles(choice)] :
     parent \in {NullName, B1}, choice \in [Paths -> EntryChoices]}

InitRecon ==
  /\ clock = 0
  /\ tree = InitTree
  /\ edits = 0
  /\ \E parentThere \in BOOLEAN, s1 \in Stores, s2 \in Stores, m \in Manifests :
       backups = [n \in (IF parentThere THEN {B1, B2} ELSE {B2}) |->
                    IF n = B1 THEN [EmptyDir EXCEPT !.files = s1]
                    ELSE [EmptyDir EXCEPT !.files = s2, !.manifest = m]]
  /\ file_metadata = {}
  /\ file_contents = {}
  /\ nextId = 1
  /\ del = NoDel
  /\ captured = EmptyFn
  /\ stripped = {}
  /\ InitDc
  /\ InitObs

\* one call of reconstructBackup with what the caller sees of it: how it
\* ended, the path returned, the files it copied, the entries it skipped
ReconstructObserved ==
  \E backupName \in ReconNames :
    LET outcome == reconstructOutcome(backupName)
        built == outcome = "built"
    IN /\ Len(recon) < MaxCalls
       /\ reconstructBackup(backupName)
       /\ recon' = Append(recon,
            [name |-> backupName,
             outcome |-> outcome,
             path |-> IF outcome = "throws" THEN NullName ELSE backupName,
             copies |-> IF built THEN Cardinality(ReconstructedEntries(backupName)) ELSE 0,
             parentSkipped |-> IF built THEN Cardinality(ParentSkipped(backupName)) ELSE 0,
             treeAfter |-> IF outcome = "throws" THEN EmptyFn
                           ELSE reconstructDirs(backupName)[backupName].reconstructed.tree])

NextRecon == ReconstructObserved
SpecRecon == InitRecon /\ [][NextRecon]_vars

\* C13 (as stated): a call that meets an entry with source = parent whose
\* object cannot be found (no parent named, parent directory or object gone)
\* does not return normally.
C13_MissingParentFails ==
  \A i \in 1..Len(recon) :
    recon[i].outcome = "built" => recon[i].parentSkipped = 0

\* C14: two calls of reconstructBackup in succession on a backup with a
\* readable manifest return the same path, and the second one copies no file
\* and leaves the materialised tree as the first one left it.
C14_ReconstructTwice ==
  \A i \in 1..(Len(recon) - 1) :
    (recon[i].name = recon[i+1].name /\ recon[i].outcome # "throws") =>
      /\ recon[i+1].outcome # "throws"
      /\ recon[i+1].path = recon[i].path
      /\ recon[i+1].copies = 0
      /\ recon[i+1].treeAfter = recon[i].treeAfter
      /\ backups[recon[i].name].reconstructed.exists

C14_Witness ==
  /\ Len(recon) >= 2
  /\ recon[1].name = recon[2].name
  /\ recon[1].outcome = "built"
  /\ recon[1].copies > 0
  /\ recon[2].outcome = "cached"

\* the manifest of backupName can be read and parsed
Readable(backupName) ==
  /\ backupName \in DOMAIN backups
  /\ backups[backupName].manifest.exists
  /\ backups[backupName].manifest.parsable

\* C15: a call of reconstructBackup for a backup whose manifest.json is
\* missing or unparsable throws and leaves the backups directory as it was
\* (no RECONSTRUCTED directory appears).
C15_NoManifestThrowsCleanly ==
  [][(Len(recon') = Len(recon) + 1 /\ ~Readable(recon'[Len(recon')].name)) =>
       /\ recon'[Len(recon')].outcome = "throws"
       /\ backups' = backups]_vars

C15_Witness ==
  /\ Len(recon) >= 1
  /\ recon[1].name = B2
  /\ recon[1].outcome = "throws"
  /\ backups[B2].manifest.exists
  /\ ~backups[B2].manifest.parsable
  /\ ~backups[B2].reconstructed.exists

\* C19 (as stated): once a backup's manifest.json is written, no step changes
\* it: neither createManifest nor the creation of a later backup.
C19_ManifestImmutable ==
  [][\A n \in DOMAIN backups :
       backups[n].manifest.exists =>
         /\ n \in DOMAIN backups'
         /\ backups'[n].manifest = backups[n].manifest]_vars

\* ---------------------------------------------------------------------------
\* copyFileToBackup called repeatedly into the files/ of one backup.  The
\* hash is the caller's (computed earlier, so it can be stale), the source
\* can be gone, and reading or writing can fail.

MaxCopies == 3

\* the source folder: each path missing or holding some content
SourceTrees ==
  UNION {[ps -> Contents] : ps \in SUBSET Paths}

InitCopy ==
  /\ clock = 0
  /\ tree \in SourceTrees
  /\ edits = 0
  /\ backups = EmptyFn
  /\ file_metadata = {}
  /\ file_contents = {}
  /\ nextId = 1
  /\ del = NoDel
  /\ captured = EmptyFn
  /\ stripped = {}
  /\ InitDc
  /\ InitObs

CopyFileToBackupCall ==
  \E sourcePath \in Paths, fileHash \in Hashes, io \in IoResults :
    LET run == copyRun(cpStore, tree, sourcePath, fileHash, io)
    IN /\ Len(cpLog) < MaxCopies
       /\ cpStore' = run.store
       /\ cpLog' = Append(cpLog,
            [sourcePath |-> sourcePath, fileHash |-> fileHash, io |-> io,
             sourceThere |-> sourcePath \in DOMAIN tree,
             present |-> fileHash \in DOMAIN cpStore,
             outcome |-> run.outcome, wrote |-> run.wrote,
             storedAfter |-> fileHash \in DOMAIN run.store])
       /\ UNCHANGED <<mainVars, dcVars, lastTrack, recon, hashVars, auxVars>>

NextCopy == CopyFileToBackupCall
SpecCopy == InitCopy /\ [][NextCopy]_vars

\* C16: files/ holds one object per hash whose copy was carried out; a call
\* for a hash already in files/ writes nothing, and no call changes an
\* object that is already there.
C16_OneObjectPerHash ==
  [][/\ \A h \in DOMAIN cpStore :
          h \in DOMAIN cpStore' /\ cpStore'[h] = cpStore[h]
     /\ \A i \in 1..Len(cpLog') : cpLog'[i].present => ~cpLog'[i].wrote
     /\ DOMAIN cpStore' = {cpLog'[i].fileHash : i \in {j \in 1..Len(cpLog') : cpLog'[j].wrote}}
     /\ \A h \in DOMAIN cpStore' :
          Cardinality({i \in 1..Len(cpLog') :
                         cpLog'[i].fileHash = h /\ cpLog'[i].wrote}) = 1]_vars

C16_Witness ==
  /\ Len(cpLog) >= 2
  /\ cpLog[1].sourcePath # cpLog[2].sourcePath
  /\ cpLog[1].fileHash = cpLog[2].fileHash
  /\ cpLog[1].wrote
  /\ cpLog[2].sourceThere /\ cpLog[2].present /\ ~cpLog[2].wrote
  /\ tree[cpLog[1].sourcePath] = tree[cpLog[2].sourcePath]
  /\ Cardinality(DOMAIN cpStore) = 1

\* C17 (as stated): a call of copyFileToBackup that returns its destination
\* path leaves an object at that path.
C17_ReturnMeansStored ==
  \A i \in 1..Len(cpLog) :
    cpLog[i].outcome = "returns" => cpLog[i].storedAfter

\* ---------------------------------------------------------------------------
\* hashDirectory run twice on one folder that readDir enumerates in two orders

\* file names of the folder: two of them are the same text in the two Unicode
\* normal forms (composed and decomposed), distinct names on disk
HashPaths == {"a", "cafe_nfc", "cafe_nfd"}

\* the collation key String.prototype.localeCompare compares by: canonically
\* equivalent strings have the same key
CollationKey(p) == IF p = "a" THEN 1 ELSE 2

\* a.localeCompare(b)
localeCompare(a, b) ==
  IF CollationKey(a) < CollationKey(b) THEN 0 - 1
  ELSE IF CollationKey(a) > CollationKey(b) THEN 1
  ELSE 0

\* Array.prototype.sort is stable: f goes after every element not greater
RECURSIVE InsertSorted(_, _)
InsertSorted(sorted, f) ==
  IF sorted = <<>> THEN <<f>>
  ELSE IF localeCompare(Head(sorted), f) <= 0
       THEN <<Head(sorted)>> \o InsertSorted(Tail(sorted), f)
       ELSE <<f>> \o sorted

\* allFiles.sort((a, b) => a.relativePath.localeCompare(b.relativePath))
RECURSIVE SortFiles(_)
SortFiles(allFiles) ==
  IF allFiles = <<>> THEN <<>>
  ELSE InsertSorted(SortFiles(SubSeq(allFiles, 1, Len(allFiles) - 1)),
                    allFiles[Len(allFiles)])

\* SHA-256 of fileHashes.join('|'): an injective digest of the joined text
sha256Text(fileHashes) == fileHashes

RECURSIVE SumSizes(_)
SumSizes(files) ==
  IF files = <<>> THEN 0 ELSE files[1].size + SumSizes(Tail(files))

\* walkDirectory(dirPath): the files in readDir's order, without those whose
\* stat throws or whose directory readDir cannot read (warn and skip)
walkDirectory(order, inaccessible) ==
  SelectSeq(order, LAMBDA p : p \notin inaccessible)

\* the state of the loop of hashDirectory before its first file
NoHashes ==
  [fileHashes |-> <<>>, individualFiles |-> <<>>, totalSize |-> 0,
   fileCount |-> 0, progress |-> <<>>]

\* the loop body with fileCount++ ahead of hashFile
HashStepCountsFailures(acc, relativePath, i, totalFiles, contents, unreadable) ==
  LET reported ==
        [acc EXCEPT !.progress =
           Append(@, [current |-> i, total |-> totalFiles, fileName |-> relativePath,
                      hashedSoFar |-> Len(acc.fileHashes)])]
  IN IF relativePath \in unreadable
     THEN [reported EXCEPT !.fileCount = @ + 1]
     ELSE [reported EXCEPT
             !.fileHashes = Append(@, <<relativePath, sha256(contents[relativePath])>>),
             !.totalSize = @ + sizeOf(contents[relativePath]),
             !.fileCount = @ + 1,
             !.individualFiles =
                Append(@, [relativePath |-> relativePath,
                           hash |-> sha256(contents[relativePath]),
                           size |-> sizeOf(contents[relativePath])])]

\* the loop body with onProgress called inside the try, after hashFile
HashStepReportsAfter(acc, relativePath, i, totalFiles, contents, unreadable) ==
  IF relativePath \in unreadable THEN acc
  ELSE [acc EXCEPT
          !.progress =
             Append(@, [current |-> i, total |-> totalFiles, fileName |-> relativePath,
                        hashedSoFar |-> Len(acc.fileHashes) + 1]),
          !.fileHashes = Append(@, <<relativePath, sha256(contents[relativePath])>>),
          !.totalSize = @ + sizeOf(contents[relativePath]),
          !.fileCount = @ + 1,
          !.individualFiles =
             Append(@, [relativePath |-> relativePath,
                        hash |-> sha256(contents[relativePath]),
                        size |-> sizeOf(contents[relativePath])])]

\* one iteration of the loop of hashDirectory on allFiles[i - 1]: onProgress(i,
\* totalFiles, relativePath), then hashFile; a file hashFile throws on is
\* skipped.  hashedSoFar is what the callback can see hashed when it is called.
HashStep(acc, relativePath, i, totalFiles, contents, unreadable) ==
  LET reported ==
        [acc EXCEPT !.progress =
           Append(@, [current |-> i, total |-> totalFiles, fileName |-> relativePath,
                      hashedSoFar |-> Len(acc.fileHashes)])]
  IN IF relativePath \in unreadable
     THEN reported
     ELSE [reported EXCEPT
             !.fileHashes = Append(@, <<relativePath, sha256(contents[relativePath])>>),
             !.totalSize = @ + sizeOf(contents[relativePath]),
             !.fileCount = @ + 1,
             !.individualFiles =
                Append(@, [relativePath |-> relativePath,
                           hash |-> sha256(contents[relativePath]),
                           size |-> sizeOf(contents[relativePath])])]

\* for (let i = 0; i < allFiles.length; i++) from position i on
RECURSIVE HashLoop(_, _, _, _, _)
HashLoop(acc, sorted, i, contents, unreadable) ==
  IF i > Len(sorted) THEN acc
  ELSE HashLoop(HashStep(acc, sorted[i], i, Len(sorted), contents, unreadable),
                sorted, i + 1, contents, unreadable)

\* hashDirectory(dirPath, onProgress) when walkDirectory returns allFiles (in
\* readDir's order), the files hold contents and hashFile throws on the
\* unreadable ones; progress is the calls of onProgress it made
hashDirectoryRun(allFiles, contents, unreadable) ==
  LET sorted == SortFiles(allFiles)
      acc == HashLoop(NoHashes, sorted, 1, contents, unreadable)
  IN [hash |-> sha256Text(acc.fileHashes),
      size |-> acc.totalSize,
      fileCount |-> acc.fileCount,
      files |-> acc.individualFiles,
      progress |-> acc.progress]

\* the orders readDir can list the files of a folder in
Enumerations(ps) ==
  {o \in [1..Cardinality(ps) -> ps] : \A i, j \in 1..Cardinality(ps) : o[i] = o[j] => i = j}

InitHash ==
  /\ InitMain
  /\ InitDc
  /\ lastTrack = NoTrack
  /\ recon = <<>>
  /\ cpStore = EmptyFn
  /\ cpLog = <<>>
  /\ \E ps \in SUBSET HashPaths :
       /\ hdFiles \in [ps -> Contents]
       /\ hdOrderA \in Enumerations(ps)
       /\ hdOrderB \in Enumerations(ps)
       /\ hdFaults \in [walk : SUBSET ps, hash : SUBSET ps]
  /\ hdResultA = NoResult
  /\ hdResultB = NoResult
  /\ hdDone = {}
  /\ InitAux

HashDirectoryA ==
  /\ "A" \notin hdDone
  /\ hdResultA' = hashDirectoryRun(walkDirectory(hdOrderA, hdFaults.walk), hdFiles, hdFaults.hash)
  /\ hdDone' = hdDone \cup {"A"}
  /\ UNCHANGED <<mainVars, dcVars, lastTrack, recon, copyVars,
                 hdFiles, hdFaults, hdOrderA, hdOrderB, hdResultB, auxVars>>

HashDirectoryB ==
  /\ "B" \notin hdDone
  /\ hdResultB' = hashDirectoryRun(walkDirectory(hdOrderB, hdFaults.walk), hdFiles, hdFaults.hash)
  /\ hdDone' = hdDone \cup {"B"}
  /\ UNCHANGED <<mainVars, dcVars, lastTrack, recon, copyVars,
                 hdFiles, hdFaults, hdOrderA, hdOrderB, hdResultA, auxVars>>

NextHash == HashDirectoryA \/ HashDirectoryB
SpecHash == InitHash /\ [][NextHash]_vars

\* C20 (as stated): two runs of hashDirectory over the same (relative path,
\* content) pairs return the same directory hash, whatever order readDir
\* lists the files in.
C20_HashIgnoresEnumerationOrder ==
  hdDone = {"A", "B"} => hdResultA.hash = hdResultB.hash

\* the files of the folder that walkDirectory finds and hashFile can read
Hashable == {p \in DOMAIN hdFiles : p \notin hdFaults.walk /\ p \notin hdFaults.hash}
\* the files walkDirectory finds
Found == {p \in DOMAIN hdFiles : p \notin hdFaults.walk}

\* C21: with any files or directories unreadable, hashDirectory returns a
\* result whose files list holds exactly the files hashed (one entry each,
\* with their hash and size), whose fileCount is their number and whose size
\* is the sum of their sizes.
C21_UnreadableFilesSkipped ==
  "A" \in hdDone =>
    /\ {hdResultA.files[i].relativePath : i \in 1..Len(hdResultA.files)} = Hashable
    /\ Len(hdResultA.files) = Cardinality(Hashable)
    /\ hdResultA.fileCount = Cardinality(Hashable)
    /\ \A i \in 1..Len(hdResultA.files) :
         /\ hdResultA.files[i].hash = sha256(hdFiles[hdResultA.files[i].relativePath])
         /\ hdResultA.files[i].size = sizeOf(hdFiles[hdResultA.files[i].relativePath])
    /\ hdResultA.size = SumSizes(hdResultA.files)

C21_Witness ==
  /\ "A" \in hdDone
  /\ hdFaults.hash \cap Found # {}
  /\ hdFaults.walk # {}
  /\ hdResultA.fileCount >= 1

\* C22 (as stated): onProgress is called once per file, after the file is
\* hashed, with filesDone the number of files hashed so far and filesTotal the
\* number of files found.
C22_ProgressAfterEachHash ==
  "A" \in hdDone =>
    /\ Len(hdResultA.progress) = Cardinality(Found)
    /\ \A k \in 1..Len(hdResultA.progress) :
         /\ hdResultA.progress[k].total = Cardinality(Found)
         /\ hdResultA.progress[k].fileName \notin hdFaults.hash
         /\ hdResultA.progress[k].current = hdResultA.progress[k].hashedSoFar

\* C22 (amended): onProgress is called once per file found, before the file
\* is hashed, with current the position of the file among the files found and
\* total their number; current rises by one from 1 to total, whether or not
\* the files can be hashed.
C22_ProgressBeforeEachFile ==
  "A" \in hdDone =>
    LET progress == hdResultA.progress
    IN /\ Len(progress) = Cardinality(Found)
       /\ {progress[k].fileName : k \in 1..Len(progress)} = Found
       /\ \A k \in 1..Len(progress) :
            /\ progress[k].current = k
            /\ progress[k].total = Cardinality(Found)
            /\ progress[k].hashedSoFar =
                 Cardinality({j \in 1..(k - 1) : progress[j].fileName \notin hdFaults.hash})

C22_Witness ==
  /\ "A" \in hdDone
  /\ Len(hdResultA.progress) >= 2
  /\ hdResultA.progress[1].fileName \in hdFaults.hash
  /\ hdResultA.fileCount >= 1

\* ---------------------------------------------------------------------------
\* calculateFolderSimilarity on a catalogue holding the file records of two
\* folders (a third id has none)

MaxSimCalls == 2

FolderIds == {1, 2, 3}

\* the distinct hashes of a list of file records: new Set(contents.map(..))
HashSet(contents) == {contents[i].file_hash : i \in 1..Len(contents)}

Max(x, y) == IF x >= y THEN x ELSE y

\* the similarity with the size of the first set as divisor
calculateFolderSimilarityByFirst(folderMetadataId1, folderMetadataId2) ==
  LET contents1 == getFolderContents(folderMetadataId1)
      contents2 == getFolderContents(folderMetadataId2)
      hashes1 == HashSet(contents1)
      hashes2 == HashSet(contents2)
  IN IF Len(contents1) = 0 \/ Len(contents2) = 0 THEN [num |-> 0, den |-> 1]
     ELSE [num |-> Cardinality(hashes1 \cap hashes2) * 100,
           den |-> Cardinality(hashes1)]

\* calculateFolderSimilarity(id1, id2): (matchCount / maxSize) * 100, kept as
\* the fraction num / den
calculateFolderSimilarity(folderMetadataId1, folderMetadataId2) ==
  LET contents1 == getFolderContents(folderMetadataId1)
      contents2 == getFolderContents(folderMetadataId2)
      hashes1 == HashSet(contents1)
      hashes2 == HashSet(contents2)
      matchCount == Cardinality({hash \in hashes1 : hash \in hashes2})
      maxSize == Max(Cardinality(hashes1), Cardinality(hashes2))
  IN IF Len(contents1) = 0 \/ Len(contents2) = 0 THEN [num |-> 0, den |-> 1]
     ELSE [num |-> matchCount * 100, den |-> maxSize]

\* file_contents rows of one folder: a hash for each of some paths
FolderRows(id, t) ==
  {[folder_metadata_id |-> id, relative_path |-> p, file_hash |-> sha256(t[p]),
    file_size |-> sizeOf(t[p]), change_type |-> "added"] : p \in DOMAIN t}

InitSim ==
  /\ clock = 0
  /\ tree = InitTree
  /\ edits = 0
  /\ backups = EmptyFn
  /\ file_metadata = {}
  /\ \E t1 \in SourceTrees, t2 \in SourceTrees :
       file_contents = FolderRows(1, t1) \cup FolderRows(2, t2)
  /\ nextId = 1
  /\ del = NoDel
  /\ captured = EmptyFn
  /\ stripped = {}
  /\ InitDc
  /\ InitObs

CalculateFolderSimilarityCall ==
  \E id1 \in FolderIds, id2 \in FolderIds :
    /\ Len(simLog) < MaxSimCalls
    /\ simLog' = Append(simLog, [id1 |-> id1, id2 |-> id2,
                                 result |-> calculateFolderSimilarity(id1, id2)])
    /\ UNCHANGED <<mainVars, dcVars, lastTrack, recon, copyVars, hashVars, svcVars, mfLog, groqVars>>

NextSim == CalculateFolderSimilarityCall
SpecSim == InitSim /\ [][NextSim]_vars

\* the distinct hashes recorded for a folder
RecordedHashes(id) == {fc.file_hash : fc \in {x \in file_contents : x.folder_metadata_id = id}}

MaxRuns == 2
MaxInitCalls == 3
MaxCloses == 2
MaxRestarts == 1

\* what the service's steps leave alone
svcOther == <<mainVars, dcVars, lastTrack, recon, copyVars, hashVars, simLog,
              mfLog, groqVars>>

\* a doInitialize run is in flight until its promise settles
Settled(run) == run.pc \in {"resolved", "rejected"}
InFlight == {id \in 1..Len(svcRuns) : ~Settled(svcRuns[id])}

\* initialize() without its "initialization in progress" test
initializeDecisionNoWait(initialized, initializing) ==
  IF initialized THEN "return" ELSE "start"

\* what initialize() does at its call: return at once, return the running
\* promise, or start doInitialize
initializeDecision(initialized, initializing) ==
  IF initialized THEN "return"
  ELSE IF initializing # 0 THEN "wait"
  ELSE "start"

\* initialize(): the code up to the first await of doInitialize (appDataDir)
InitializeCall ==
  LET decision == initializeDecision(svcInitialized, svcInitializing)
      id == Len(svcRuns) + 1
      call == [decision |-> decision,
               run |-> IF decision = "start" THEN id
                       ELSE IF decision = "wait" THEN svcInitializing ELSE 0,
               cleaned |-> decision # "start",
               sawInitialized |-> svcInitialized,
               sawInFlight |-> InFlight,
               sawUncleaned |-> \E i \in 1..Len(svcCalls) : ~svcCalls[i].cleaned]
  IN /\ Len(svcCalls) < MaxInitCalls
     /\ decision = "start" => Len(svcRuns) < MaxRuns
     /\ svcCalls' = Append(svcCalls, call)
     /\ IF decision = "start"
        THEN /\ svcRuns' = Append(svcRuns, [pc |-> "appData"])
             /\ svcInitializing' = id
        ELSE UNCHANGED <<svcRuns, svcInitializing>>
     /\ UNCHANGED <<svcDb, svcInitialized, svcClosing, svcRestarts, storage_config>>
     /\ UNCHANGED svcOther

\* doInitialize after appDataDir(): createDirectoryStructure, then
\* Database.load is called
RunDirectories(id, ok) ==
  /\ svcRuns[id].pc = "appData"
  /\ svcRuns' = [svcRuns EXCEPT ![id].pc = IF ok THEN "loading" ELSE "rejected"]
  /\ UNCHANGED <<svcDb, svcInitialized, svcInitializing, svcCalls, svcClosing,
                 svcRestarts, storage_config>>
  /\ UNCHANGED svcOther

\* initializeDatabase: this.db = await Database.load(..), then the first
\* CREATE TABLE is sent
RunLoaded(id, ok) ==
  /\ svcRuns[id].pc = "loading"
  /\ svcRuns' = [svcRuns EXCEPT ![id].pc = IF ok THEN "tables" ELSE "rejected"]
  /\ svcDb' = IF ok THEN "open" ELSE svcDb
  /\ UNCHANGED <<svcInitialized, svcInitializing, svcCalls, svcClosing,
                 svcRestarts, storage_config>>
  /\ UNCHANGED svcOther

\* the CREATE TABLE statements are done; ensureStorageConfig throws without a
\* database, otherwise it sends SELECT * FROM storage_config WHERE id = 1
RunTables(id, ok) ==
  /\ svcRuns[id].pc = "tables"
  /\ svcRuns' = [svcRuns EXCEPT ![id].pc =
                   IF ok /\ svcDb # "null" THEN "select" ELSE "rejected"]
  /\ UNCHANGED <<svcDb, svcInitialized, svcInitializing, svcCalls, svcClosing,
                 svcRestarts, storage_config>>
  /\ UNCHANGED svcOther

\* the SELECT answered.  With no row the INSERT OR IGNORE is sent: this.db
\* being null there is a TypeError the inner catch swallows, like any error
\* of the INSERT.  With a row, or after the swallowed error, the run goes on
\* to this.initialized = true and resolves.
RunSelected(id, ok) ==
  /\ svcRuns[id].pc = "select"
  /\ IF ~ok
     THEN /\ svcRuns' = [svcRuns EXCEPT ![id].pc = "rejected"]
          /\ UNCHANGED svcInitialized
     ELSE IF storage_config = {} /\ svcDb # "null"
     THEN /\ svcRuns' = [svcRuns EXCEPT ![id].pc = "insert"]
          /\ UNCHANGED svcInitialized
     ELSE /\ svcRuns' = [svcRuns EXCEPT ![id].pc = "resolved"]
          /\ svcInitialized' = TRUE
  /\ UNCHANGED <<svcDb, svcInitializing, svcCalls, svcClosing, svcRestarts,
                 storage_config>>
  /\ UNCHANGED svcOther

\* the INSERT OR IGNORE answered (an error is logged and ignored), then
\* this.initialized = true
RunInserted(id, ok) ==
  /\ svcRuns[id].pc = "insert"
  /\ storage_config' = IF ok THEN storage_config \cup {1} ELSE storage_config
  /\ svcRuns' = [svcRuns EXCEPT ![id].pc = "resolved"]
  /\ svcInitialized' = TRUE
  /\ UNCHANGED <<svcDb, svcInitializing, svcCalls, svcClosing, svcRestarts>>
  /\ UNCHANGED svcOther

\* the call that started the run, after "await this.initializing":
\* finally { this.initializing = null }
InitializeFinally(i) ==
  /\ svcCalls[i].decision = "start"
  /\ ~svcCalls[i].cleaned
  /\ Settled(svcRuns[svcCalls[i].run])
  /\ svcInitializing' = 0
  /\ svcCalls' = [svcCalls EXCEPT ![i].cleaned = TRUE]
  /\ UNCHANGED <<svcDb, svcInitialized, svcRuns, svcClosing, svcRestarts,
                 storage_config>>
  /\ UNCHANGED svcOther

\* close(): with a database, db.close() is called and awaited
CloseCall ==
  /\ svcDb # "null"
  /\ svcClosing < MaxCloses
  /\ svcClosing' = svcClosing + 1
  /\ UNCHANGED <<svcDb, svcInitialized, svcInitializing, svcRuns, svcCalls,
                 svcRestarts, storage_config>>
  /\ UNCHANGED svcOther

\* close() after db.close(): this.db = null; this.initialized = false (when
\* db.close() throws, neither is assigned)
CloseDone(ok) ==
  /\ svcClosing > 0
  /\ svcClosing' = svcClosing - 1
  /\ svcDb' = IF ok THEN "null" ELSE svcDb
  /\ svcInitialized' = IF ok THEN FALSE ELSE svcInitialized
  /\ UNCHANGED <<svcInitializing, svcRuns, svcCalls, svcRestarts, storage_config>>
  /\ UNCHANGED svcOther

\* the application is restarted: a new StorageService, the same metadata.db
Restart ==
  /\ svcRestarts < MaxRestarts
  /\ svcRestarts' = svcRestarts + 1
  /\ svcDb' = "null"
  /\ svcInitialized' = FALSE
  /\ svcInitializing' = 0
  /\ svcRuns' = <<>>
  /\ svcCalls' = <<>>
  /\ svcClosing' = 0
  /\ UNCHANGED storage_config
  /\ UNCHANGED svcOther

RunStep ==
  \E id \in 1..Len(svcRuns), ok \in BOOLEAN :
    \/ RunDirectories(id, ok)
    \/ RunLoaded(id, ok)
    \/ RunTables(id, ok)
    \/ RunSelected(id, ok)
    \/ RunInserted(id, ok)

NextInit ==
  \/ InitializeCall
  \/ RunStep
  \/ \E i \in 1..Len(svcCalls) : InitializeFinally(i)
  \/ CloseCall
  \/ \E ok \in BOOLEAN : CloseDone(ok)
  \/ Restart

SpecInit == Init /\ [][NextInit]_vars

\* C24 (as stated): once an initialize() call has succeeded, now or before a
\* restart, storage_config holds exactly one row, the one with id = 1.
C24_OneConfigRow ==
  (svcInitialized \/ \E id \in 1..Len(svcRuns) : svcRuns[id].pc = "resolved")
    => storage_config = {1}

\* C26 (as stated): whenever isInitialized() is true the database handle is
\* not null.
C26_InitializedHasDatabase ==
  svcInitialized => svcDb # "null"

MaxManifestCalls == 3

\* the manifests a caller passes to createManifest: full or differential,
\* with no entry or one entry of any kind for the first path
ValidManifests ==
  {m \in Manifests :
     /\ m.parsable
     /\ Len(m.files) <= 1
     /\ \A i \in 1..Len(m.files) : m.files[i].relative_path = PathSeq[1]}

InitManifest ==
  /\ clock = 0
  /\ tree = InitTree
  /\ edits = 0
  /\ \E m \in {NoManifest, [NoManifest EXCEPT !.exists = TRUE]} :
       backups = [n \in {B2} |-> [EmptyDir EXCEPT !.manifest = m]]
  /\ file_metadata = {}
  /\ file_contents = {}
  /\ nextId = 1
  /\ del = NoDel
  /\ captured = EmptyFn
  /\ stripped = {}
  /\ InitDc
  /\ InitObs

\* createManifest(backupPath, manifest); when writeTextFile throws the file is
\* as before
CreateManifestCall ==
  \E manifest \in ValidManifests, ok \in BOOLEAN :
    /\ Len(mfLog) < MaxManifestCalls
    /\ backups' = IF ok THEN [backups EXCEPT ![B2] = createManifest(backups[B2], manifest)]
                  ELSE backups
    /\ mfLog' = Append(mfLog, [op |-> "create", manifest |-> manifest,
                               outcome |-> IF ok THEN "returns" ELSE "throws"])
    /\ UNCHANGED <<clock, tree, edits, file_metadata, file_contents, nextId, del,
                   captured, stripped, dcVars, lastTrack, recon, copyVars,
                   hashVars, simLog, svcVars, groqVars>>

\* readManifest(backupPath): every error is caught and null returned
ReadManifestCall ==
  /\ Len(mfLog) < MaxManifestCalls
  /\ mfLog' = Append(mfLog, [op |-> "read", manifest |-> readManifest(B2),
                             outcome |-> "returns"])
  /\ UNCHANGED <<mainVars, dcVars, lastTrack, recon, copyVars, hashVars,
                 simLog, svcVars, groqVars>>

NextManifest == CreateManifestCall \/ ReadManifestCall
SpecManifest == InitManifest /\ [][NextManifest]_vars

\* the calls of createManifest before call i that returned
Written(i) == {j \in 1..(i - 1) : mfLog[j].op = "create" /\ mfLog[j].outcome = "returns"}

\* C25: readManifest after createManifest(path, m) returns a manifest equal to
\* m (the last one written); readManifest of a directory whose manifest.json
\* is missing or unparsable returns null and does not throw.
C25_ManifestRoundTrip ==
  \A i \in 1..Len(mfLog) :
    mfLog[i].op = "read" =>
      /\ mfLog[i].outcome = "returns"
      /\ IF Written(i) = {}
         THEN mfLog[i].manifest = NoManifest
         ELSE mfLog[i].manifest =
                mfLog[CHOOSE j \in Written(i) : \A k \in Written(i) : k <= j].manifest

C25_Witness ==
  /\ Len(mfLog) = 3
  /\ mfLog[1].op = "read" /\ mfLog[1].manifest = NoManifest
  /\ backups[B2].manifest.exists
  /\ mfLog[2].op = "create" /\ mfLog[2].outcome = "returns"
  /\ mfLog[2].manifest.parent_backup = NullName
  /\ Len(mfLog[2].manifest.files) = 1
  /\ mfLog[3].op = "read" /\ mfLog[3].manifest = mfLog[2].manifest

\* C28 (as stated): a call of reconstructBackup that returns through the
\* already-reconstructed shortcut returns a RECONSTRUCTED tree holding every
\* non-deleted entry of the manifest, with the content its hash names.
C28_CachedReconstructionComplete ==
  \A i \in 1..Len(recon) :
    recon[i].outcome = "cached" =>
      LET files == backups[recon[i].name].manifest.files
      IN \A k \in 1..Len(files) :
           files[k].change_type # "deleted" =>
             /\ files[k].relative_path \in DOMAIN recon[i].treeAfter
             /\ sha256(recon[i].treeAfter[files[k].relative_path]) = files[k].file_hash

\* ---------------------------------------------------------------------------
\* detectChanges against a parent file list as getFolderContents returns it
\* for a differential backup: its rows carry the parent's change_type, and
\* the rows of files the parent found deleted are among them

\* FileContent rows of a parent backup
ParentEntries ==
  {[relative_path |-> f.relative_path, file_hash |-> f.file_hash,
    file_size |-> f.file_size, change_type |-> t] :
     f \in FileEntries, t \in {"added", "deleted"}}
ParentLists ==
  UNION {{l \in [1..n -> ParentEntries] :
            \A i, j \in 1..n : l[i].relative_path = l[j].relative_path => i = j} :
         n \in 0..MaxFiles}

InitDetectParent ==
  /\ InitMain
  /\ dcCurrent \in FileLists
  /\ dcParent \in ParentLists
  /\ dcChanges = <<>>
  /\ dcDone = FALSE
  /\ InitObs

SpecDetectParent == InitDetectParent /\ [][NextDetect]_vars

\* C29 (as stated): a path the parent recorded as deleted is classified
\* 'added' when the current tree has a file there, whatever its hash, and is
\* not reported deleted again when it is still absent.
C29_DeletedInParentIsAbsent ==
  dcDone =>
    \A k \in 1..Len(dcParent) :
      dcParent[k].change_type = "deleted" =>
        \A i \in 1..Len(dcChanges) :
          dcChanges[i].relative_path = dcParent[k].relative_path =>
            /\ dcParent[k].relative_path \in PathsOf(dcCurrent)
            /\ dcChanges[i].change_type = "added"

\* ---------------------------------------------------------------------------
\* callGroqWithFallback: one request per model until one answers

\* Fallback models in order of preference
MODELS ==
  <<"llama-3.3-70b-versatile", "llama-3.1-70b-versatile", "llama-3.1-8b-instant",
    "mixtral-8x7b-32768">>

\* the answers to a request: response.ok, HTTP 429, another error status, or
\* fetch rejecting
Responses == {"ok", "429", "500", "network"}

InitGroq ==
  /\ InitMain
  /\ InitDc
  /\ lastTrack = NoTrack
  /\ recon = <<>>
  /\ cpStore = EmptyFn
  /\ cpLog = <<>>
  /\ hdFiles = EmptyFn
  /\ hdFaults = NoFaults
  /\ hdOrderA = <<>>
  /\ hdOrderB = <<>>
  /\ hdResultA = NoResult
  /\ hdResultB = NoResult
  /\ hdDone = {}
  /\ simLog = <<>>
  /\ InitSvc
  /\ mfLog = <<>>
  /\ groqResponses \in [1..Len(MODELS) -> Responses]
  /\ groqTried = <<>>
  /\ groqLastError = "null"
  /\ groqResult = [state |-> "running"]

\* what the loop body does with the answer for one model: return the
\* response, or keep the error and go on to the next model.  The throw for a
\* status other than 429 is inside the try, so its catch continues as well.
groqAttempt(response) ==
  IF response = "ok" THEN "return" ELSE "continue"

\* one iteration of "for (const model of MODELS)"
GroqRequest ==
  LET i == Len(groqTried) + 1
  IN /\ groqResult.state = "running"
     /\ i <= Len(MODELS)
     /\ groqTried' = Append(groqTried, MODELS[i])
     /\ IF groqAttempt(groqResponses[i]) = "return"
        THEN /\ groqResult' = [state |-> "returned", model |-> MODELS[i]]
             /\ UNCHANGED groqLastError
        ELSE /\ groqLastError' = <<groqResponses[i], MODELS[i]>>
             /\ UNCHANGED groqResult
     /\ UNCHANGED <<groqResponses, mainVars, dcVars, lastTrack, recon, copyVars,
                    hashVars, simLog, svcVars, mfLog>>

\* after the loop: throw lastError || new Error('All models failed')
GroqExhausted ==
  /\ groqResult.state = "running"
  /\ Len(groqTried) = Len(MODELS)
  /\ groqResult' = [state |-> "threw", error |-> groqLastError]
  /\ UNCHANGED <<groqResponses, groqTried, groqLastError, mainVars, dcVars, lastTrack,
                 recon, copyVars, hashVars, simLog, svcVars, mfLog>>

NextGroq == GroqRequest \/ GroqExhausted
SpecGroq == InitGroq /\ [][NextGroq]_vars

\* C30 (as stated): the models are tried in their fixed order; the response
\* of the first model that answers successfully is returned; the next model
\* is tried only after an HTTP 429; another error response is thrown at once;
\* after the last model the last error is thrown.
C30_FallbackOnlyOnRateLimit ==
  /\ \A k \in 1..Len(groqTried) : groqTried[k] = MODELS[k]
  /\ \A k \in 1..(Len(groqTried) - 1) : groqResponses[k] = "429"
  /\ groqResult.state = "returned" =>
       /\ groqResponses[Len(groqTried)] = "ok"
       /\ groqResult.model = MODELS[Len(groqTried)]
  /\ groqResult.state = "threw" =>
       /\ groqResponses[Len(groqTried)] # "ok"
       /\ groqResult.error = <<groqResponses[Len(groqTried)], MODELS[Len(groqTried)]>>

====
